---- MODULE Spec2Model ----
(***************************************************************************)
(* BrainPath frontend (React).  The model covers the session store and the *)
(* route guard of App.js, the submit handler of AuthPage.js, the topic     *)
(* guard of Dashboard.js, the content and question requests of             *)
(* LearningPage.js, the assessment controller of AssessmentPage.js and the *)
(* joined fetches of PerformancePage.js.                                   *)
(*                                                                         *)
(* JavaScript values are tagged records so that null, strings, objects and *)
(* arrays stay distinct: Null, Str(<<chars>>), Obj(record), Arr(<<...>>).  *)
(* A handler, the render it triggers, the <Navigate> redirects of that     *)
(* render and the effects of that commit form one atomic step: React       *)
(* batches the state updates of one handler into one render (the pages     *)
(* import sonner, which needs React 18, where batching applies to the      *)
(* continuation of an awaited request as well), and no other event is      *)
(* dispatched before the commit's effects have run.                        *)
(* Requests are asynchronous: a request in flight is state, and its        *)
(* continuation is a later step that works on the values its closure       *)
(* captured when the handler started.  A page that is left is unmounted:   *)
(* its state is discarded and the state setters its pending continuations  *)
(* call do nothing, while their toasts and their navigate calls still act. *)
(* Time is counted in whole seconds.                                       *)
(***************************************************************************)
EXTENDS Integers, Sequences, FiniteSets, Bags, TLC

VARIABLES
  \* ---- App.js
  token,        \* useState(localStorage.getItem('token'))
  user,         \* useState(JSON.parse(localStorage.getItem('user') || 'null'))
  storage,      \* window.localStorage: key -> Str(..) or Null (no such key)
  path,         \* location.pathname of the BrowserRouter
  navState,     \* location.state
  toast,        \* the toast shown last (sonner)
  lastOp,       \* the handler that ran last
  \* ---- AuthPage.js
  isLogin, loading, educationLevel, subLevel, board, showSubLevel,
  authCall,     \* the axios.post of handleSubmit: none, pending or replied
  \* ---- Dashboard.js
  topic,
  \* ---- LearningPage.js
  content,      \* useState(null): response.data of generate-content
  learnLoading, \* useState(true)
  learnCalls,   \* the requests of generateContent and proceedToQuestions in
                \* flight (a bag), each with the values its closure captured
                \* and whether the page instance that sent it is still mounted
  learnOps,     \* generateContent and proceedToQuestions calls so far
  \* ---- PerformancePage.js
  analytics, progress, perfLoading,
  perfCalls,    \* the two requests of fetchData and whether Promise.all settled
  \* ---- AssessmentPage.js
  currentIndex, answers, results, timer, startTime, completed, score,
  now,          \* Date.now(), in seconds
  evalCalls,    \* the evaluate-answer requests in flight (a bag), each with
                \* the values its submitAnswer closure captured
  evalIssued,   \* evaluate-answer requests sent so far
  evalCorrect,  \* evaluate-answer responses returned with is_correct so far
  evalMark      \* per question id: "none" before any response for it, then
                \* "right" while every response for it was is_correct, else "wrong"

appVars    == <<token, user, storage, path, navState, toast, lastOp>>
authVars   == <<isLogin, loading, educationLevel, subLevel, board, showSubLevel, authCall>>
dashVars   == <<topic>>
learnVars  == <<content, learnLoading, learnCalls, learnOps>>
perfVars   == <<analytics, progress, perfLoading, perfCalls>>
assessVars == <<currentIndex, answers, results, timer, startTime, completed, score,
                now, evalCalls, evalIssued, evalCorrect, evalMark>>
vars       == <<appVars, authVars, dashVars, learnVars, perfVars, assessVars>>

----------------------------------------------------------------------------
\* Bounds of the model.
MaxLen       == 1   \* longest text typed into the topic field
MaxAnswerLen == 1   \* longest text typed into an answer field
MaxLearnOps  == 3   \* generateContent and proceedToQuestions calls in one run
MaxQuestions == 2   \* longest question list of an assessment session
MaxInFlight  == 2   \* evaluate-answer requests in flight at once
MaxRequests  == 3   \* evaluate-answer requests sent in one visit
MaxClock     == 1   \* the assessment clock stops here
MaxTimer     == 95  \* the clock of the timer-class specification stops here

\* Constants of the program.
DefaultExpectedTime == 60
PassThreshold       == 4
TotalShown          == 6

----------------------------------------------------------------------------
\* JavaScript values.
Null     == [t |-> "null"]
Str(s)   == [t |-> "str", s |-> s]
Obj(o)   == [t |-> "obj", o |-> o]
Arr(a)   == [t |-> "arr", a |-> a]
EmptyStr == Str(<<>>)

\* ToBoolean: null, undefined and '' are falsy; objects and arrays (the empty
\* array included) and non-empty strings are truthy.
Truthy(v) == v # Null /\ v # EmptyStr

Chars == {" ", "a"}
RECURSIVE SeqsUpTo(_)
SeqsUpTo(n) == IF n = 0 THEN {<<>>}
               ELSE LET S == SeqsUpTo(n - 1)
                    IN  S \cup {Append(s, c) : s \in {x \in S : Len(x) = n - 1}, c \in Chars}
Texts == {Str(s) : s \in SeqsUpTo(MaxLen)}
AnswerTexts == {Str(s) : s \in SeqsUpTo(MaxAnswerLen)}

IsSpace(c) == c = " "
RECURSIVE TrimStart(_)
TrimStart(s) == IF s # <<>> /\ IsSpace(Head(s)) THEN TrimStart(Tail(s)) ELSE s
RECURSIVE TrimEnd(_)
TrimEnd(s) == IF s # <<>> /\ IsSpace(s[Len(s)]) THEN TrimEnd(SubSeq(s, 1, Len(s) - 1)) ELSE s
\* String.prototype.trim
Trim(v) == Str(TrimEnd(TrimStart(v.s)))

\* JSON.stringify of a user profile / JSON.parse of a stored string.
JSONstringify(v) ==
  IF v = Null THEN Str(<<"n", "u", "l", "l">>)
  ELSE Str(<<"{", v.o.email, ",", v.o.education_level, "}">>)
JSONparse(v) ==
  IF v.s = <<"n", "u", "l", "l">> THEN Null
  ELSE Obj([email |-> v.s[2], education_level |-> v.s[4]])

\* What the backend can return on a successful login or signup.
Tokens == {Str(<<"t", "1">>), Str(<<"t", "2">>)}
Users  == {Obj([email |-> "ann", education_level |-> "school"]),
           Obj([email |-> "bob", education_level |-> "college"])}

----------------------------------------------------------------------------
\* localStorage
Keys         == {"token", "user"}
EmptyStorage == [k \in Keys |-> Null]
getItem(st, k)       == st[k]
setItem(st, k, v)    == [st EXCEPT ![k] = v]
removeItem(st, k)    == [st EXCEPT ![k] = Null]
clear(st)            == EmptyStorage

\* A token effect that never writes the token.
TokenEffect_NeverWrites(st, tok) == removeItem(st, "token")

\* A user effect that never writes the profile.
UserEffect_NeverWrites(st, usr) == removeItem(st, "user")

\* The two persistence effects of App.  An effect runs on mount and after a
\* render in which its dependency changed.
TokenEffect(st, tok) == IF Truthy(tok) THEN setItem(st, "token", tok)
                        ELSE removeItem(st, "token")
UserEffect(st, usr)  == IF Truthy(usr) THEN setItem(st, "user", JSONstringify(usr))
                        ELSE removeItem(st, "user")
Persist(st, tokChanged, tok, usrChanged, usr) ==
  LET s1 == IF tokChanged THEN TokenEffect(st, tok) ELSE st
  IN  IF usrChanged THEN UserEffect(s1, usr) ELSE s1

----------------------------------------------------------------------------
\* Router
ProtectedPaths == {"/dashboard", "/learn", "/assess", "/performance"}
Paths          == {"/", "/auth"} \cup ProtectedPaths

Page(name)   == [kind |-> "page", name |-> name, to |-> ""]
Navigate(to) == [kind |-> "navigate", name |-> "", to |-> to]

PageOf(p) == CASE p = "/dashboard"   -> Page("Dashboard")
               [] p = "/learn"       -> Page("LearningPage")
               [] p = "/assess"      -> Page("AssessmentPage")
               [] p = "/performance" -> Page("PerformancePage")

\* A route table whose /performance route lost its guard.
RouteElement_Unguarded(p, tok) ==
  CASE p = "/"            -> Page("LandingPage")
    [] p = "/auth"        -> IF Truthy(tok) THEN Navigate("/dashboard") ELSE Page("AuthPage")
    [] p = "/performance" -> PageOf(p)
    [] OTHER              -> IF Truthy(tok) THEN PageOf(p) ELSE Navigate("/auth")

\* The element of the route matching path p, given the token of this render.
RouteElement(p, tok) ==
  CASE p = "/"     -> Page("LandingPage")
    [] p = "/auth" -> IF Truthy(tok) THEN Navigate("/dashboard") ELSE Page("AuthPage")
    [] OTHER       -> IF Truthy(tok) THEN PageOf(p) ELSE Navigate("/auth")

NoState == [topic |-> Null, technique |-> Null, sessionId |-> Null, questions |-> Null]

\* A Learning page without its mount guard.
MountRedirects_AssessOnly(name, st) ==
  name = "AssessmentPage" /\ (~Truthy(st.sessionId) \/ ~Truthy(st.questions))

\* An Assessment page without its mount guard.
MountRedirects_LearnOnly(name, st) ==
  name = "LearningPage" /\ (~Truthy(st.topic) \/ ~Truthy(st.technique))

\* An Assessment page whose mount guard takes an empty question list for a
\* missing one.
MountRedirects_EmptyListRedirects(name, st) ==
  \/ name = "LearningPage"   /\ (~Truthy(st.topic) \/ ~Truthy(st.technique))
  \/ name = "AssessmentPage" /\ (\/ ~Truthy(st.sessionId)
                                 \/ ~Truthy(st.questions)
                                 \/ st.questions.a = <<>>)

\* The mount guards of LearningPage and AssessmentPage: navigate('/dashboard').
MountRedirects(name, st) ==
  \/ name = "LearningPage"   /\ (~Truthy(st.topic) \/ ~Truthy(st.technique))
  \/ name = "AssessmentPage" /\ (~Truthy(st.sessionId) \/ ~Truthy(st.questions))

\* Where a navigation to p with state st comes to rest: <Navigate> elements and
\* mount guards are followed (both navigate without state).
RECURSIVE Settle(_, _, _)
Settle(p, st, tok) ==
  LET e == RouteElement(p, tok)
  IN  IF e.kind = "navigate" THEN Settle(e.to, NoState, tok)
      ELSE IF MountRedirects(e.name, st) THEN Settle("/dashboard", NoState, tok)
      ELSE [path |-> p, state |-> st]

\* The page on screen.
Screen == RouteElement(path, token).name

\* A toast: its kind, its text and, for the score toasts, the number in it.
NoToast            == [kind |-> "none", msg |-> "", n |-> 0]
Toast(k, m)        == [kind |-> k, msg |-> m, n |-> 0]
ScoreToast(k, m, n) == [kind |-> k, msg |-> m, n |-> n]
----------------------------------------------------------------------------
\* AuthPage: the initial values of its useState hooks, and its request.
EducationLevels == {Str(<<"school">>), Str(<<"college">>)}
SubLevels       == {Str(<<"primary">>)}
Boards          == {Str(<<"cbse">>)}

CallShape(st, mode, body, ok, tok, usr, detail) ==
  [st |-> st, mode |-> mode, body |-> body, ok |-> ok,
   token |-> tok, user |-> usr, detail |-> detail]
NoBody  == [education_level |-> Null, sub_level |-> Null, board |-> Null]
NoCall  == CallShape("none", "", NoBody, FALSE, Null, Null, Null)
Pending(mode, body) == CallShape("pending", mode, body, FALSE, Null, Null, Null)

\* x || null
OrNull(v) == IF Truthy(v) THEN v ELSE Null

ResetAuthPage ==
  /\ isLogin' = FALSE
  /\ loading' = FALSE
  /\ educationLevel' = EmptyStr
  /\ subLevel' = EmptyStr
  /\ board' = EmptyStr
  /\ showSubLevel' = FALSE

ResetDashboard == topic' = EmptyStr

\* School details checked with && in place of ||.
SignupBlock_BothMissing(level, sub, brd) ==
  IF ~Truthy(level) THEN Toast("error", "Please select your education level")
  ELSE IF level = Str(<<"school">>) /\ (~Truthy(sub) /\ ~Truthy(brd))
       THEN Toast("error", "Please complete school details")
  ELSE NoToast

\* The local checks of handleSubmit in signup mode: the toast of the check that
\* blocks the submission, or NoToast when the request may be sent.
SignupBlock(level, sub, brd) ==
  IF ~Truthy(level) THEN Toast("error", "Please select your education level")
  ELSE IF level = Str(<<"school">>) /\ (~Truthy(sub) \/ ~Truthy(brd))
       THEN Toast("error", "Please complete school details")
  ELSE NoToast

\* A topic guard that forgets to trim.
TopicAccepted_NoTrim(t) == Truthy(t)

\* Dashboard.startLearning: whether the topic passes the guard.
TopicAccepted(t) == Truthy(Trim(t))

Techniques == {Str(<<"passage">>), Str(<<"video">>), Str(<<"flowchart">>)}
LearnState(t, technique) == [NoState EXCEPT !.topic = t, !.technique = technique]

----------------------------------------------------------------------------
\* The assessment controller is idle outside its own specification.
AssessIdle ==
  /\ currentIndex = 0 /\ answers = <<>> /\ results = <<>> /\ timer = 0
  /\ startTime = 0 /\ completed = FALSE /\ score = 0 /\ now = 0
  /\ evalCalls = EmptyBag /\ evalIssued = 0 /\ evalCorrect = 0 /\ evalMark = <<>>

----------------------------------------------------------------------------
\* LearningPage and PerformancePage: their requests and their mount effects.

\* A request of the Learning page with what its closure holds: topic and
\* technique of the navigation state, and for create-session the questions of
\* the generate-questions response.
LearnCall(api, st, qs, live) ==
  [api |-> api, topic |-> st.topic, technique |-> st.technique,
   questions |-> qs, live |-> live]

\* The page instance that sent the requests is unmounted.
Dead(c)        == [c EXCEPT !.live = FALSE]
Unmount(calls) == BagOfAll(Dead, calls)

\* fetchData: the state of its two requests and of the Promise.all joining them.
NoFetch     == [analytics |-> "none", progress |-> "none", settled |-> FALSE]
BothPending == [analytics |-> "pending", progress |-> "pending", settled |-> FALSE]

\* What the render of the page at dest does to the Learning page and to the
\* Performance page, old being the page mounted before (none in a new
\* document) and calls the Learning requests still in flight.  A page that
\* stays mounted keeps its state; a page that is mounted starts from its
\* useState values and runs its mount effect (generateContent, fetchData).
PageEffects(dest, tok, calls, old) ==
  LET new == RouteElement(dest.path, tok).name
  IN  /\ IF new = "LearningPage" /\ old # "LearningPage"
           THEN /\ content' = Null
                /\ learnLoading' = TRUE
                /\ learnCalls' = Unmount(calls) (+)
                     SetToBag({LearnCall("generate-content", dest.state, Null, TRUE)})
                /\ learnOps' = learnOps + 1
           ELSE IF new = "LearningPage"
           THEN /\ learnCalls' = calls
                /\ UNCHANGED <<content, learnLoading, learnOps>>
           ELSE /\ content' = Null
                /\ learnLoading' = TRUE
                /\ learnCalls' = Unmount(calls)
                /\ UNCHANGED learnOps
      /\ IF new = "PerformancePage" /\ old # "PerformancePage"
           THEN /\ analytics' = Null /\ progress' = Null
                /\ perfLoading' = TRUE
                /\ perfCalls' = BothPending
           ELSE IF new = "PerformancePage"
           THEN UNCHANGED perfVars
           ELSE /\ analytics' = Null /\ progress' = Null
                /\ perfLoading' = TRUE
                /\ perfCalls' = NoFetch

\* The Learning and Performance pages are not mounted and nothing is in flight.
PagesIdle ==
  /\ content = Null /\ learnLoading = TRUE /\ learnCalls = EmptyBag /\ learnOps = 0
  /\ analytics = Null /\ progress = Null /\ perfLoading = TRUE /\ perfCalls = NoFetch

----------------------------------------------------------------------------
\* App.js

\* A page load of URL p (startup, reload, typed address): App is constructed
\* from storage, both effects run on mount, every page starts afresh and the
\* requests of the previous document are gone.
LoadUrl(p) ==
  LET tok  == getItem(storage, "token")
      raw  == getItem(storage, "user")
      usr  == JSONparse(IF Truthy(raw) THEN raw ELSE Str(<<"n", "u", "l", "l">>))
      dest == Settle(p, NoState, tok)
  IN  /\ token' = tok
      /\ user' = usr
      /\ storage' = Persist(storage, TRUE, tok, TRUE, usr)
      /\ path' = dest.path
      /\ navState' = dest.state
      /\ toast' = NoToast
      /\ lastOp' = "load"
      /\ ResetAuthPage
      /\ authCall' = NoCall
      /\ ResetDashboard
      /\ PageEffects(dest, tok, EmptyBag, "")
      /\ currentIndex' = 0 /\ answers' = <<>> /\ results' = <<>> /\ timer' = 0
      /\ startTime' = 0 /\ completed' = FALSE /\ score' = 0
      /\ evalCalls' = EmptyBag
      /\ UNCHANGED <<now, evalIssued, evalCorrect, evalMark>>

\* A handleLogin that forgets setUser.
HandleLoginAndGo_TokenOnly(newToken, newUser, to) ==
  LET dest == Settle(to, NoState, newToken)
  IN  /\ token' = newToken
      /\ user' = user
      /\ storage' = Persist(storage, newToken # token, newToken, FALSE, user)
      /\ path' = dest.path
      /\ navState' = dest.state

\* handleLogin(newToken, newUser), then navigate(to): the tail of handleSubmit.
HandleLoginAndGo(newToken, newUser, to) ==
  LET dest == Settle(to, NoState, newToken)
  IN  /\ token' = newToken
      /\ user' = newUser
      /\ storage' = Persist(storage, newToken # token, newToken, TRUE, newUser)
      /\ path' = dest.path
      /\ navState' = dest.state

\* A handleLogout that forgets setUser(null): the user effect does not run, and
\* the profile stays in memory.
HandleLogout_KeepsUser ==
  /\ Screen = "Dashboard"
  /\ LET dest == Settle(path, navState, Null)
     IN  /\ token' = Null
         /\ user' = user
         /\ storage' = Persist(clear(storage), token # Null, Null, FALSE, user)
         /\ path' = dest.path
         /\ navState' = dest.state
         /\ PageEffects(dest, Null, learnCalls, Screen)
  /\ lastOp' = "handleLogout"
  /\ ResetAuthPage
  /\ ResetDashboard
  /\ UNCHANGED <<toast, authCall, assessVars>>

\* handleLogout, from the Dashboard's logout button.
HandleLogout ==
  /\ Screen = "Dashboard"
  /\ LET dest == Settle(path, navState, Null)
     IN  /\ token' = Null
         /\ user' = Null
         /\ storage' = Persist(clear(storage), token # Null, Null, user # Null, Null)
         /\ path' = dest.path
         /\ navState' = dest.state
         /\ PageEffects(dest, Null, learnCalls, Screen)
  /\ lastOp' = "handleLogout"
  /\ ResetAuthPage
  /\ ResetDashboard
  /\ UNCHANGED <<toast, authCall, assessVars>>

\* In-app navigation by a button: navigate(to), without state, and the mount
\* effects of the page it leads to.
GoTo(to) ==
  LET dest == Settle(to, NoState, token)
  IN  /\ path' = dest.path
      /\ navState' = dest.state
      /\ PageEffects(dest, token, learnCalls, Screen)
      /\ UNCHANGED <<token, user, storage>>

\* LandingPage "Get Started".
LandingGetStarted ==
  /\ Screen = "LandingPage"
  /\ GoTo("/auth")
  /\ lastOp' = "getStarted"
  /\ ResetAuthPage
  /\ ResetDashboard
  /\ UNCHANGED <<toast, authCall, assessVars>>

----------------------------------------------------------------------------
\* AuthPage.js

ToggleMode ==
  /\ Screen = "AuthPage"
  /\ isLogin' = ~isLogin
  /\ lastOp' = "setIsLogin"
  /\ UNCHANGED <<token, user, storage, path, navState, toast>>
  /\ UNCHANGED <<loading, educationLevel, subLevel, board, showSubLevel, authCall>>
  /\ UNCHANGED <<dashVars, learnVars, perfVars, assessVars>>

HandleEducationChange(value) ==
  /\ Screen = "AuthPage" /\ ~isLogin
  /\ educationLevel' = value
  /\ showSubLevel' = (value = Str(<<"school">>))
  /\ IF value # Str(<<"school">>)
       THEN subLevel' = EmptyStr /\ board' = EmptyStr
       ELSE UNCHANGED <<subLevel, board>>
  /\ lastOp' = "handleEducationChange"
  /\ UNCHANGED <<token, user, storage, path, navState, toast>>
  /\ UNCHANGED <<isLogin, loading, authCall, dashVars, learnVars, perfVars, assessVars>>

SetSubLevel(value) ==
  /\ Screen = "AuthPage" /\ ~isLogin /\ showSubLevel
  /\ subLevel' = value
  /\ lastOp' = "setSubLevel"
  /\ UNCHANGED <<token, user, storage, path, navState, toast>>
  /\ UNCHANGED <<isLogin, loading, educationLevel, board, showSubLevel, authCall>>
  /\ UNCHANGED <<dashVars, learnVars, perfVars, assessVars>>

SetBoard(value) ==
  /\ Screen = "AuthPage" /\ ~isLogin /\ showSubLevel
  /\ board' = value
  /\ lastOp' = "setBoard"
  /\ UNCHANGED <<token, user, storage, path, navState, toast>>
  /\ UNCHANGED <<isLogin, loading, educationLevel, subLevel, showSubLevel, authCall>>
  /\ UNCHANGED <<dashVars, learnVars, perfVars, assessVars>>

\* handleSubmit up to its await (or its early return).  The submit button is
\* disabled while loading.
HandleSubmit ==
  /\ Screen = "AuthPage" /\ ~loading
  /\ IF isLogin
       THEN /\ authCall' = Pending("login", NoBody)
            /\ loading' = TRUE
            /\ lastOp' = "submitLogin"
            /\ UNCHANGED toast
       ELSE LET block == SignupBlock(educationLevel, subLevel, board)
            IN  IF block # NoToast
                  THEN /\ toast' = block
                       /\ loading' = FALSE
                       /\ lastOp' = "submitBlocked"
                       /\ UNCHANGED authCall
                  ELSE /\ authCall' = Pending("signup",
                                        [education_level |-> educationLevel,
                                         sub_level |-> OrNull(subLevel),
                                         board |-> OrNull(board)])
                       /\ loading' = TRUE
                       /\ lastOp' = "submitSignup"
                       /\ UNCHANGED toast
  /\ UNCHANGED <<token, user, storage, path, navState>>
  /\ UNCHANGED <<isLogin, educationLevel, subLevel, board, showSubLevel>>
  /\ UNCHANGED <<dashVars, learnVars, perfVars, assessVars>>

\* The backend answers the request: {token, user}, or an error with or without
\* a detail message.
AuthReply ==
  /\ authCall.st = "pending"
  /\ \/ \E tok \in Tokens, usr \in Users :
          authCall' = [authCall EXCEPT !.st = "replied", !.ok = TRUE,
                                       !.token = tok, !.user = usr]
     \/ \E d \in {Null, Str(<<"Invalid credentials">>)} :
          authCall' = [authCall EXCEPT !.st = "replied", !.ok = FALSE, !.detail = d]
  /\ lastOp' = "authReply"
  /\ UNCHANGED <<token, user, storage, path, navState, toast>>
  /\ UNCHANGED <<isLogin, loading, educationLevel, subLevel, board, showSubLevel>>
  /\ UNCHANGED <<dashVars, learnVars, perfVars, assessVars>>

\* handleSubmit after its await, on success: toast, onLogin, navigate, and the
\* finally block.
AuthSuccess ==
  /\ authCall.st = "replied" /\ authCall.ok
  /\ toast' = Toast("success", IF authCall.mode = "login" THEN "Login successful!"
                               ELSE "Account created successfully!")
  /\ HandleLoginAndGo(authCall.token, authCall.user, "/dashboard")
  /\ authCall' = NoCall
  /\ lastOp' = "authSuccess"
  /\ IF RouteElement(path', token').name = "AuthPage"
       THEN /\ loading' = FALSE
            /\ UNCHANGED <<isLogin, educationLevel, subLevel, board, showSubLevel>>
       ELSE ResetAuthPage
  /\ PageEffects(Settle("/dashboard", NoState, authCall.token), authCall.token,
                 learnCalls, Screen)
  /\ UNCHANGED <<dashVars, assessVars>>

\* A handleSubmit without its finally block.
AuthFailure_StaysLoading ==
  /\ authCall.st = "replied" /\ ~authCall.ok
  /\ toast' = Toast("error", IF Truthy(authCall.detail) THEN authCall.detail.s[1]
                             ELSE "Authentication failed")
  /\ authCall' = NoCall
  /\ lastOp' = "authFailure"
  /\ UNCHANGED <<token, user, storage, path, navState>>
  /\ UNCHANGED <<isLogin, loading, educationLevel, subLevel, board, showSubLevel>>
  /\ UNCHANGED <<dashVars, learnVars, perfVars, assessVars>>

\* handleSubmit after its await, on failure: the catch and the finally block.
AuthFailure ==
  /\ authCall.st = "replied" /\ ~authCall.ok
  /\ toast' = Toast("error", IF Truthy(authCall.detail) THEN authCall.detail.s[1]
                             ELSE "Authentication failed")
  /\ loading' = FALSE
  /\ authCall' = NoCall
  /\ lastOp' = "authFailure"
  /\ UNCHANGED <<token, user, storage, path, navState>>
  /\ UNCHANGED <<isLogin, educationLevel, subLevel, board, showSubLevel>>
  /\ UNCHANGED <<dashVars, learnVars, perfVars, assessVars>>

----------------------------------------------------------------------------
\* Dashboard.js

SetTopic(value) ==
  /\ Screen = "Dashboard"
  /\ topic' = value
  /\ lastOp' = "setTopic"
  /\ UNCHANGED <<token, user, storage, path, navState, toast>>
  /\ UNCHANGED <<authVars, learnVars, perfVars, assessVars>>

\* startLearning, and the mount of the Learning page it navigates to.
StartLearning(technique) ==
  /\ Screen = "Dashboard"
  /\ lastOp' = "startLearning"
  /\ IF ~TopicAccepted(topic)
       THEN /\ toast' = Toast("error", "Please enter a topic to learn")
            /\ UNCHANGED <<path, navState, topic, learnVars, perfVars>>
       ELSE LET dest == Settle("/learn", LearnState(topic, technique), token)
            IN  /\ learnOps < MaxLearnOps
                /\ path' = dest.path
                /\ navState' = dest.state
                /\ PageEffects(dest, token, learnCalls, Screen)
                /\ ResetDashboard
                /\ UNCHANGED toast
  /\ UNCHANGED <<token, user, storage>>
  /\ UNCHANGED <<authVars, assessVars>>

ViewAnalytics ==
  /\ Screen = "Dashboard"
  /\ GoTo("/performance")
  /\ ResetDashboard
  /\ lastOp' = "viewAnalytics"
  /\ UNCHANGED <<toast, authVars, assessVars>>

\* The Back buttons of LearningPage and PerformancePage, which are rendered
\* once the page is no longer loading.
BackToDashboard ==
  /\ \/ Screen = "LearningPage" /\ ~learnLoading
     \/ Screen = "PerformancePage" /\ ~perfLoading
  /\ GoTo("/dashboard")
  /\ ResetDashboard
  /\ lastOp' = "backToDashboard"
  /\ UNCHANGED <<toast, authVars, assessVars>>

----------------------------------------------------------------------------
\* PerformancePage.js

Fetches       == {"analytics", "progress"}
AnalyticsData == Obj([name |-> "analytics"])
ProgressData  == Obj([name |-> "progress"])

\* A fetchData that takes each response on its own, as Promise.allSettled would.
FetchReply_EachOnItsOwn(which, ok) ==
  /\ Screen = "PerformancePage"
  /\ perfCalls[which] = "pending"
  /\ LET after == [perfCalls EXCEPT ![which] = IF ok THEN "ok" ELSE "failed"]
         done  == \A f \in Fetches : after[f] # "pending"
     IN  /\ perfCalls' = [after EXCEPT !.settled = done]
         /\ analytics' = IF ok /\ which = "analytics" THEN AnalyticsData ELSE analytics
         /\ progress' = IF ok /\ which = "progress" THEN ProgressData ELSE progress
         /\ perfLoading' = IF done THEN FALSE ELSE perfLoading
  /\ lastOp' = "fetchReply"
  /\ UNCHANGED <<token, user, storage, path, navState, toast>>
  /\ UNCHANGED <<authVars, dashVars, learnVars, assessVars>>

\* A fetchData that ends the session when a request fails.
FetchReply_FailureLogsOut(which, ok) ==
  /\ Screen = "PerformancePage"
  /\ perfCalls[which] = "pending"
  /\ perfCalls' = [perfCalls EXCEPT ![which] = IF ok THEN "ok" ELSE "failed",
                                    !.settled = TRUE]
  /\ perfLoading' = FALSE
  /\ UNCHANGED <<analytics, progress>>
  /\ token' = token /\ user' = user
  /\ storage' = IF ok THEN storage ELSE removeItem(storage, "token")
  /\ lastOp' = "fetchReply"
  /\ UNCHANGED <<path, navState, toast>>
  /\ UNCHANGED <<authVars, dashVars, learnVars, assessVars>>

\* One request of fetchData completes.  Promise.all rejects with the first
\* request that fails and fulfils once both have succeeded; the rest of
\* fetchData runs then: the two setters or the catch, and the finally block.
\* A response that arrives after the Promise has settled changes nothing.
FetchReply(which, ok) ==
  /\ Screen = "PerformancePage"
  /\ perfCalls[which] = "pending"
  /\ LET after     == [perfCalls EXCEPT ![which] = IF ok THEN "ok" ELSE "failed"]
         fulfilled == \A f \in Fetches : after[f] = "ok"
     IN  IF perfCalls.settled \/ (ok /\ ~fulfilled)
           THEN /\ perfCalls' = after
                /\ UNCHANGED <<analytics, progress, perfLoading>>
           ELSE /\ perfCalls' = [after EXCEPT !.settled = TRUE]
                /\ analytics' = IF fulfilled THEN AnalyticsData ELSE analytics
                /\ progress' = IF fulfilled THEN ProgressData ELSE progress
                /\ perfLoading' = FALSE
  /\ lastOp' = "fetchReply"
  /\ UNCHANGED <<token, user, storage, path, navState, toast>>
  /\ UNCHANGED <<authVars, dashVars, learnVars, assessVars>>

----------------------------------------------------------------------------
Init ==
  /\ storage = EmptyStorage
  /\ token = Null /\ user = Null
  /\ \E p \in Paths : LET dest == Settle(p, NoState, Null)
                      IN  path = dest.path /\ navState = dest.state
  /\ toast = NoToast /\ lastOp = "load"
  /\ isLogin = FALSE /\ loading = FALSE /\ educationLevel = EmptyStr
  /\ subLevel = EmptyStr /\ board = EmptyStr /\ showSubLevel = FALSE
  /\ authCall = NoCall
  /\ topic = EmptyStr
  /\ PagesIdle
  /\ AssessIdle

Next ==
  \/ \E p \in Paths : LoadUrl(p)
  \/ LandingGetStarted
  \/ ToggleMode
  \/ \E v \in EducationLevels : HandleEducationChange(v)
  \/ \E v \in SubLevels : SetSubLevel(v)
  \/ \E v \in Boards : SetBoard(v)
  \/ HandleSubmit
  \/ AuthReply
  \/ AuthSuccess
  \/ AuthFailure
  \/ HandleLogout
  \/ ViewAnalytics
  \/ BackToDashboard
  \/ \E f \in Fetches, ok \in BOOLEAN : FetchReply(f, ok)

Spec == Init /\ [][Next]_vars
----------------------------------------------------------------------------
\* AssessmentPage.js

\* The questions the backend generates.  A question without expected_time (or
\* with 0) has expected_time 0 here: both are falsy in line 44.
Options == {Str(<<"a">>)}
Question(i) == [id |-> i,
                type |-> IF i = 1 THEN "short" ELSE "mcq",
                expected_time |-> IF i % 2 = 1 THEN 2 ELSE 0]
QuestionList(n) == [i \in 1..n |-> Question(i)]

AssessState(sid, qs) ==
  [topic |-> Str(<<"a">>), technique |-> Str(<<"passage">>),
   sessionId |-> sid, questions |-> Arr(qs)]

sessionId == navState.sessionId
questions == navState.questions

\* The page is mounted and its mount guard let it stay.
AssessMounted ==
  /\ Screen = "AssessmentPage"
  /\ ~MountRedirects("AssessmentPage", navState)

NumQuestions    == Len(questions.a)
currentQuestion == questions.a[currentIndex + 1]

\* const expectedTime = currentQuestion?.expected_time || 60
ExpectedTimeOf(q) == IF q.expected_time # 0 THEN q.expected_time ELSE DefaultExpectedTime
expectedTime      == ExpectedTimeOf(currentQuestion)

\* The class of the timer: timeRatio = timer / expectedTime, compared with 1.5
\* and 1 (2 * timer > 3 * expectedTime, timer > expectedTime).
TimerClass_DangerAtBoundary(t, et) ==
  IF 2 * t >= 3 * et THEN "timer-danger"
  ELSE IF t > et THEN "timer-warning"
  ELSE "text-[#a3e635]"

TimerClass(t, et) ==
  IF 2 * t > 3 * et THEN "timer-danger"
  ELSE IF t > et THEN "timer-warning"
  ELSE "text-[#a3e635]"

\* Which of the three returns of the component renders.
AssessmentView ==
  IF questions = Null \/ NumQuestions = 0 THEN "loading"
  ELSE IF completed THEN "summary"
  ELSE "question"

\* The summary card: icon and score text.
SummaryIcon(sc) == IF sc >= PassThreshold THEN "CheckCircle" ELSE "XCircle"
SummaryText(sc) == <<sc, "/", TotalShown>>

\* submitAnswer's guard: !answer || answer.trim() === ''
AnswerMissing_NoTrim(answer) == ~Truthy(answer)

AnswerMissing(answer) == ~Truthy(answer) \/ Trim(answer) = EmptyStr

\* The interval callback, one second later: setTimer((Date.now() - startTime) / 1000).
TimerTick(limit) ==
  /\ AssessMounted
  /\ now < limit
  /\ now' = now + 1
  /\ timer' = now' - startTime
  /\ lastOp' = "tick"
  /\ UNCHANGED <<token, user, storage, path, navState, toast>>
  /\ UNCHANGED <<currentIndex, answers, results, startTime, completed, score>>
  /\ UNCHANGED <<evalCalls, evalIssued, evalCorrect, evalMark>>
  /\ UNCHANGED <<authVars, dashVars, learnVars, perfVars>>

AnswerValues(q) == IF q.type = "mcq" THEN Options ELSE AnswerTexts

HandleAnswerChange(value) ==
  /\ AssessMounted /\ AssessmentView = "question"
  /\ value \in AnswerValues(currentQuestion)
  /\ answers' = [answers EXCEPT ![currentQuestion.id] = value]
  /\ lastOp' = "handleAnswerChange"
  /\ UNCHANGED <<token, user, storage, path, navState, toast>>
  /\ UNCHANGED <<currentIndex, results, timer, startTime, completed, score, now>>
  /\ UNCHANGED <<evalCalls, evalIssued, evalCorrect, evalMark>>
  /\ UNCHANGED <<authVars, dashVars, learnVars, perfVars>>

\* submitAnswer up to its await (or its early return).  The request carries the
\* values the closure of this render holds.
SubmitAnswer ==
  /\ AssessMounted /\ AssessmentView = "question"
  /\ LET answer == answers[currentQuestion.id]
     IN  IF AnswerMissing(answer)
           THEN /\ toast' = Toast("error", "Please provide an answer")
                /\ UNCHANGED <<evalCalls, evalIssued>>
           ELSE /\ BagCardinality(evalCalls) < MaxInFlight
                /\ evalIssued < MaxRequests
                /\ evalIssued' = evalIssued + 1
                /\ evalCalls' = evalCalls (+) SetToBag(
                     {[session_id |-> sessionId,
                       question_id |-> currentQuestion.id,
                       answer |-> answer,
                       time_taken |-> timer,
                       results |-> results,
                       score |-> score,
                       currentIndex |-> currentIndex,
                       length |-> NumQuestions]})
                /\ UNCHANGED toast
  /\ lastOp' = "submitAnswer"
  /\ UNCHANGED <<token, user, storage, path, navState>>
  /\ UNCHANGED <<currentIndex, answers, results, timer, startTime, completed, score, now>>
  /\ UNCHANGED <<evalCorrect, evalMark>>
  /\ UNCHANGED <<authVars, dashVars, learnVars, perfVars>>

Feedback(ok) == IF ok THEN "Correct" ELSE "Incorrect"

\* A continuation that moves to the next index after the last question too.
EvalSuccess_AdvancesPastLast(c, ok) ==
  /\ BagIn(c, evalCalls)
  /\ evalCalls' = evalCalls (-) SetToBag({c})
  /\ evalCorrect' = IF ok THEN evalCorrect + 1 ELSE evalCorrect
  /\ evalMark' = [evalMark EXCEPT ![c.question_id] =
                     IF ok /\ @ # "wrong" THEN "right" ELSE "wrong"]
  /\ toast' = Toast("success", Feedback(ok))
  /\ IF AssessMounted
       THEN /\ results' = Append(c.results, [is_correct |-> ok, feedback |-> Feedback(ok)])
            /\ score' = IF ok THEN c.score + 1 ELSE score
            /\ currentIndex' = c.currentIndex + 1
            /\ IF c.currentIndex < c.length - 1
                 THEN /\ timer' = 0
                      /\ startTime' = now
                      /\ UNCHANGED completed
                 ELSE /\ completed' = TRUE
                      /\ UNCHANGED <<timer, startTime>>
       ELSE UNCHANGED <<results, score, currentIndex, timer, startTime, completed>>
  /\ lastOp' = "evalSuccess"
  /\ UNCHANGED <<token, user, storage, path, navState>>
  /\ UNCHANGED <<answers, now, evalIssued>>
  /\ UNCHANGED <<authVars, dashVars, learnVars, perfVars>>

\* submitAnswer after its await, the request having succeeded with
\* {is_correct, feedback}.  State setters of an unmounted page do nothing.
EvalSuccess(c, ok) ==
  /\ BagIn(c, evalCalls)
  /\ evalCalls' = evalCalls (-) SetToBag({c})
  /\ evalCorrect' = IF ok THEN evalCorrect + 1 ELSE evalCorrect
  /\ evalMark' = [evalMark EXCEPT ![c.question_id] =
                     IF ok /\ @ # "wrong" THEN "right" ELSE "wrong"]
  /\ toast' = Toast("success", Feedback(ok))
  /\ IF AssessMounted
       THEN /\ results' = Append(c.results, [is_correct |-> ok, feedback |-> Feedback(ok)])
            /\ score' = IF ok THEN c.score + 1 ELSE score
            /\ IF c.currentIndex < c.length - 1
                 THEN /\ currentIndex' = c.currentIndex + 1
                      /\ timer' = 0
                      /\ startTime' = now
                      /\ UNCHANGED completed
                 ELSE /\ completed' = TRUE
                      /\ UNCHANGED <<currentIndex, timer, startTime>>
       ELSE UNCHANGED <<results, score, currentIndex, timer, startTime, completed>>
  /\ lastOp' = "evalSuccess"
  /\ UNCHANGED <<token, user, storage, path, navState>>
  /\ UNCHANGED <<answers, now, evalIssued>>
  /\ UNCHANGED <<authVars, dashVars, learnVars, perfVars>>

\* A catch block that starts the question's timer again.
EvalFailure_RestartsTimer(c) ==
  /\ BagIn(c, evalCalls)
  /\ evalCalls' = evalCalls (-) SetToBag({c})
  /\ toast' = Toast("error", "Failed to submit answer")
  /\ timer' = 0 /\ startTime' = now
  /\ lastOp' = "evalFailure"
  /\ UNCHANGED <<token, user, storage, path, navState>>
  /\ UNCHANGED <<currentIndex, answers, results, completed, score, now>>
  /\ UNCHANGED <<evalIssued, evalCorrect, evalMark>>
  /\ UNCHANGED <<authVars, dashVars, learnVars, perfVars>>

\* submitAnswer after its await, the request having failed: the catch block.
EvalFailure(c) ==
  /\ BagIn(c, evalCalls)
  /\ evalCalls' = evalCalls (-) SetToBag({c})
  /\ toast' = Toast("error", "Failed to submit answer")
  /\ lastOp' = "evalFailure"
  /\ UNCHANGED <<token, user, storage, path, navState>>
  /\ UNCHANGED <<currentIndex, answers, results, timer, startTime, completed, score, now>>
  /\ UNCHANGED <<evalIssued, evalCorrect, evalMark>>
  /\ UNCHANGED <<authVars, dashVars, learnVars, perfVars>>

\* finishAssessment, the Continue button of the summary: the page is left and
\* its state is discarded.
FinishAssessment ==
  /\ AssessMounted /\ AssessmentView = "summary"
  /\ toast' = IF score >= PassThreshold
                THEN ScoreToast("success", "Great job! You scored n/6", score)
                ELSE ScoreToast("info", "You scored n/6", score)
  /\ GoTo("/dashboard")
  /\ currentIndex' = 0 /\ answers' = <<>> /\ results' = <<>> /\ timer' = 0
  /\ startTime' = 0 /\ completed' = FALSE /\ score' = 0
  /\ lastOp' = "finishAssessment"
  /\ UNCHANGED <<now, evalCalls, evalIssued, evalCorrect, evalMark>>
  /\ UNCHANGED <<authVars, dashVars>>

\* The Assessment page has just been entered with a session id and a question
\* list (from the Learning page), by a logged-in user.
InitAssessWith(qs) ==
  /\ token = Str(<<"t", "1">>)
  /\ user = Obj([email |-> "ann", education_level |-> "school"])
  /\ storage = Persist(EmptyStorage, TRUE, token, TRUE, user)
  /\ path = "/assess"
  /\ navState = AssessState(Str(<<"s1">>), qs)
  /\ toast = NoToast /\ lastOp = "mount"
  /\ isLogin = FALSE /\ loading = FALSE /\ educationLevel = EmptyStr
  /\ subLevel = EmptyStr /\ board = EmptyStr /\ showSubLevel = FALSE
  /\ authCall = NoCall
  /\ topic = EmptyStr
  /\ PagesIdle
  /\ currentIndex = 0 /\ answers = [i \in 1..Len(qs) |-> Null] /\ results = <<>>
  /\ timer = 0 /\ startTime = 0 /\ completed = FALSE /\ score = 0 /\ now = 0
  /\ evalCalls = EmptyBag /\ evalIssued = 0 /\ evalCorrect = 0
  /\ evalMark = [i \in 1..Len(qs) |-> "none"]

InitAssess == \E n \in 0..MaxQuestions : InitAssessWith(QuestionList(n))

NextAssess ==
  \/ LoadUrl("/assess")
  \/ TimerTick(MaxClock)
  \/ \E v \in AnswerTexts \cup Options : HandleAnswerChange(v)
  \/ SubmitAnswer
  \/ \E c \in BagToSet(evalCalls), ok \in BOOLEAN : EvalSuccess(c, ok)
  \/ \E c \in BagToSet(evalCalls) : EvalFailure(c)
  \/ FinishAssessment

SpecAssess == InitAssess /\ [][NextAssess]_vars

\* The timer of one question with any expected_time, running for a long time.
ExpectedTimes == {0, 2, 4, DefaultExpectedTime}

InitTimer ==
  \E et \in ExpectedTimes :
    InitAssessWith(<<[id |-> 1, type |-> "short", expected_time |-> et]>>)

NextTimer == TimerTick(MaxTimer)

SpecTimer == InitTimer /\ [][NextTimer]_vars

----------------------------------------------------------------------------
\* LearningPage.js

\* What the backend returns: the content for a technique, the question list
\* (none or MaxQuestions questions), the id of the created session.
ContentOf(technique) == Obj([content |-> technique])
QuestionLists        == {Arr(QuestionList(0)), Arr(QuestionList(MaxQuestions))}
SessionIds           == {Str(<<"s1">>)}

\* What a navigation does to the pages that neither GoTo nor PageEffects
\* covers: the Dashboard and the AuthPage start afresh when they are mounted,
\* the Assessment page starts with its useState values (startTime is
\* Date.now()) when it is mounted and loses them when it is left.
OtherPageEffects(dest, tok, old) ==
  LET new == RouteElement(dest.path, tok).name
  IN  /\ IF new = old /\ new = "Dashboard" THEN UNCHANGED topic ELSE ResetDashboard
      /\ IF new = old /\ new = "AuthPage" THEN UNCHANGED authVars
         ELSE ResetAuthPage /\ UNCHANGED authCall
      /\ IF new = "AssessmentPage" /\ old # "AssessmentPage"
           THEN LET n == Len(dest.state.questions.a)
                IN  /\ currentIndex' = 0 /\ answers' = [i \in 1..n |-> Null]
                    /\ results' = <<>> /\ timer' = 0 /\ startTime' = now
                    /\ completed' = FALSE /\ score' = 0
                    /\ evalIssued' = 0 /\ evalCorrect' = 0
                    /\ evalMark' = [i \in 1..n |-> "none"]
                    /\ UNCHANGED <<now, evalCalls>>
           ELSE IF new # "AssessmentPage" /\ old = "AssessmentPage"
           THEN /\ currentIndex' = 0 /\ answers' = <<>> /\ results' = <<>>
                /\ timer' = 0 /\ startTime' = 0 /\ completed' = FALSE /\ score' = 0
                /\ UNCHANGED <<now, evalCalls, evalIssued, evalCorrect, evalMark>>
           ELSE UNCHANGED assessVars

\* navigate(to, { state }) called by the continuation of a request, whichever
\* page is on screen by then; calls are the Learning requests left in flight.
NavigateFrom(to, st, calls) ==
  LET dest == Settle(to, st, token)
  IN  /\ path' = dest.path
      /\ navState' = dest.state
      /\ PageEffects(dest, token, calls, Screen)
      /\ OtherPageEffects(dest, token, Screen)
      /\ UNCHANGED <<token, user, storage>>

\* The browser's Back button on the Learning page: the history entry before
\* /learn is the dashboard's.
BrowserBack ==
  /\ Screen = "LearningPage"
  /\ GoTo("/dashboard")
  /\ ResetDashboard
  /\ lastOp' = "browserBack"
  /\ UNCHANGED <<toast, authVars, assessVars>>

\* generateContent after its await, on success: setContent and the finally
\* block, both without effect once the page instance is unmounted.
ContentSuccess(c) ==
  /\ BagIn(c, learnCalls) /\ c.api = "generate-content"
  /\ learnCalls' = learnCalls (-) SetToBag({c})
  /\ IF c.live
       THEN content' = ContentOf(c.technique) /\ learnLoading' = FALSE
       ELSE UNCHANGED <<content, learnLoading>>
  /\ lastOp' = "contentSuccess"
  /\ UNCHANGED <<token, user, storage, path, navState, toast, learnOps>>
  /\ UNCHANGED <<authVars, dashVars, perfVars, assessVars>>

\* A catch block that toasts and stays: the finally block ends the loading
\* view of the page that sent the request.
ContentFailure_StaysOnPage(c) ==
  /\ BagIn(c, learnCalls) /\ c.api = "generate-content"
  /\ learnCalls' = learnCalls (-) SetToBag({c})
  /\ toast' = Toast("error", "Failed to generate content")
  /\ learnLoading' = IF c.live THEN FALSE ELSE learnLoading
  /\ lastOp' = "contentFailure"
  /\ UNCHANGED <<token, user, storage, path, navState, content, learnOps>>
  /\ UNCHANGED <<authVars, dashVars, perfVars, assessVars>>

\* generateContent after its await, on failure: the catch block (toast and
\* navigate('/dashboard')); the finally block acts on a page that is left.
ContentFailure(c) ==
  /\ BagIn(c, learnCalls) /\ c.api = "generate-content"
  /\ toast' = Toast("error", "Failed to generate content")
  /\ NavigateFrom("/dashboard", NoState, learnCalls (-) SetToBag({c}))
  /\ lastOp' = "contentFailure"

\* A continue action that sends both requests at once.
ProceedToQuestions_BothAtOnce ==
  /\ Screen = "LearningPage" /\ ~learnLoading
  /\ learnOps < MaxLearnOps
  /\ toast' = Toast("info", "Generating questions...")
  /\ learnCalls' = learnCalls (+)
       SetToBag({LearnCall("generate-questions", navState, Null, TRUE)}) (+)
       SetToBag({LearnCall("create-session", navState, Arr(<<>>), TRUE)})
  /\ learnOps' = learnOps + 1
  /\ lastOp' = "proceedToQuestions"
  /\ UNCHANGED <<token, user, storage, path, navState, content, learnLoading>>
  /\ UNCHANGED <<authVars, dashVars, perfVars, assessVars>>

\* proceedToQuestions up to its first await.  The button is rendered once the
\* content is loaded, and stays enabled while a request is pending.
ProceedToQuestions ==
  /\ Screen = "LearningPage" /\ ~learnLoading
  /\ learnOps < MaxLearnOps
  /\ toast' = Toast("info", "Generating questions...")
  /\ learnCalls' = learnCalls (+)
       SetToBag({LearnCall("generate-questions", navState, Null, TRUE)})
  /\ learnOps' = learnOps + 1
  /\ lastOp' = "proceedToQuestions"
  /\ UNCHANGED <<token, user, storage, path, navState, content, learnLoading>>
  /\ UNCHANGED <<authVars, dashVars, perfVars, assessVars>>

\* proceedToQuestions between its awaits: generate-questions has succeeded
\* with the list qs, create-session is sent with it.
QuestionsSuccess(c, qs) ==
  /\ BagIn(c, learnCalls) /\ c.api = "generate-questions"
  /\ learnCalls' = (learnCalls (-) SetToBag({c})) (+)
       SetToBag({[c EXCEPT !.api = "create-session", !.questions = qs]})
  /\ lastOp' = "questionsSuccess"
  /\ UNCHANGED <<token, user, storage, path, navState, toast>>
  /\ UNCHANGED <<content, learnLoading, learnOps>>
  /\ UNCHANGED <<authVars, dashVars, perfVars, assessVars>>

\* proceedToQuestions after its second await: create-session has succeeded
\* with session_id sid, navigate('/assess', { state }).
SessionSuccess(c, sid) ==
  /\ BagIn(c, learnCalls) /\ c.api = "create-session"
  /\ NavigateFrom("/assess",
                  [topic |-> c.topic, technique |-> c.technique,
                   sessionId |-> sid, questions |-> c.questions],
                  learnCalls (-) SetToBag({c}))
  /\ lastOp' = "sessionSuccess"
  /\ UNCHANGED toast

\* proceedToQuestions, either request having failed: the catch block.
ProceedFailure(c) ==
  /\ BagIn(c, learnCalls) /\ c.api \in {"generate-questions", "create-session"}
  /\ learnCalls' = learnCalls (-) SetToBag({c})
  /\ toast' = Toast("error", "Failed to generate questions")
  /\ lastOp' = "proceedFailure"
  /\ UNCHANGED <<token, user, storage, path, navState>>
  /\ UNCHANGED <<content, learnLoading, learnOps>>
  /\ UNCHANGED <<authVars, dashVars, perfVars, assessVars>>

\* A logged-in user on the dashboard.
InitLearn ==
  /\ token = Str(<<"t", "1">>)
  /\ user = Obj([email |-> "ann", education_level |-> "school"])
  /\ storage = Persist(EmptyStorage, TRUE, token, TRUE, user)
  /\ path = "/dashboard"
  /\ navState = NoState
  /\ toast = NoToast /\ lastOp = "mount"
  /\ isLogin = FALSE /\ loading = FALSE /\ educationLevel = EmptyStr
  /\ subLevel = EmptyStr /\ board = EmptyStr /\ showSubLevel = FALSE
  /\ authCall = NoCall
  /\ topic = EmptyStr
  /\ PagesIdle
  /\ AssessIdle

NextLearn ==
  \/ \E p \in {"/learn", "/assess"} : LoadUrl(p)
  \/ \E v \in Texts : SetTopic(v)
  \/ \E t \in Techniques : StartLearning(t)
  \/ BackToDashboard
  \/ BrowserBack
  \/ ProceedToQuestions
  \/ \E c \in BagToSet(learnCalls) : ContentSuccess(c)
  \/ \E c \in BagToSet(learnCalls) : ContentFailure(c)
  \/ \E c \in BagToSet(learnCalls), qs \in QuestionLists : QuestionsSuccess(c, qs)
  \/ \E c \in BagToSet(learnCalls), sid \in SessionIds : SessionSuccess(c, sid)
  \/ \E c \in BagToSet(learnCalls) : ProceedFailure(c)

SpecLearn == InitLearn /\ [][NextLearn]_vars

----------------------------------------------------------------------------
\* Session and routing properties (specification Spec).

ProtectedPages == {"Dashboard", "LearningPage", "AssessmentPage", "PerformancePage"}
SessionPresent == token # Null /\ user # Null
SessionAbsent  == token = Null /\ user = Null
AllProtectedRender(tok)   == \A p \in ProtectedPaths : RouteElement(p, tok) = PageOf(p)
AllProtectedRedirect(tok) == \A p \in ProtectedPaths : RouteElement(p, tok) = Navigate("/auth")

\* C1: in every reachable state token and user are both set or both absent, in
\* the App state and in localStorage alike.
C1_TokenUserPaired ==
  /\ (token # Null) <=> (user # Null)
  /\ (getItem(storage, "token") # Null) <=> (getItem(storage, "user") # Null)

C1_Witness ==
  /\ lastOp = "authSuccess"
  /\ token # Null /\ user # Null
  /\ getItem(storage, "token") # Null /\ getItem(storage, "user") # Null

\* C2: the route decision depends on session presence only: with a session
\* every protected path renders its page and /auth redirects to /dashboard;
\* without one every protected path redirects to /auth and /auth renders the
\* form; the page on screen is never a protected page without a session.
C2_RouteGuard ==
  /\ SessionPresent \/ SessionAbsent
  /\ SessionPresent => /\ AllProtectedRender(token)
                       /\ RouteElement("/auth", token) = Navigate("/dashboard")
  /\ SessionAbsent  => /\ AllProtectedRedirect(token)
                       /\ RouteElement("/auth", token) = Page("AuthPage")
  /\ Screen \in ProtectedPages => SessionPresent

C2_Witness ==
  /\ lastOp = "load" /\ Screen = "PerformancePage" /\ SessionPresent

\* C3: the step that handles a successful login or signup reply sets token and
\* user to the replied pair, leaves both in storage (the user readable back by
\* JSON.parse), and ends on /dashboard; and as long as no logout runs the
\* session stays as it is and every protected route renders its page.
C3_LoginEstablishesSession ==
  [][ /\ lastOp' = "authSuccess" =>
           /\ token' = authCall.token /\ user' = authCall.user
           /\ getItem(storage', "token") = authCall.token
           /\ getItem(storage', "user") # Null
           /\ JSONparse(getItem(storage', "user")) = authCall.user
           /\ path' = "/dashboard"
           /\ AllProtectedRender(token')
      /\ (SessionPresent /\ lastOp' # "handleLogout") =>
           /\ token' = token /\ user' = user
           /\ getItem(storage', "token") = token
           /\ AllProtectedRender(token')
    ]_vars

C3_Witness ==
  /\ lastOp = "backToDashboard" /\ Screen = "Dashboard"
  /\ SessionPresent /\ getItem(storage, "token") = token

\* C4: the logout step leaves neither token nor user in memory or in storage
\* (storage is empty after the effects have run) and every protected route
\* redirects to /auth.
C4_LogoutClearsSession ==
  [][ lastOp' = "handleLogout" =>
        /\ token' = Null /\ user' = Null
        /\ storage' = EmptyStorage
        /\ AllProtectedRedirect(token')
        /\ path' = "/auth"
    ]_vars

C4_Witness ==
  /\ lastOp = "handleLogout" /\ path = "/auth"
  /\ token = Null /\ user = Null /\ storage = EmptyStorage

\* C5: in signup mode a submission sends the signup request only if
\* education_level is non-empty and, for 'school', sub_level and board are
\* non-empty too; any other submission shows an error toast, sends nothing and
\* leaves the session alone.
SignupFieldsValid ==
  /\ educationLevel # EmptyStr
  /\ educationLevel = Str(<<"school">>) => (subLevel # EmptyStr /\ board # EmptyStr)

C5_SignupValidation ==
  [][ /\ (authCall.st = "none" /\ authCall'.st = "pending" /\ authCall'.mode = "signup")
           => SignupFieldsValid
      /\ (lastOp' \in {"submitLogin", "submitSignup", "submitBlocked"}
            /\ ~isLogin /\ ~SignupFieldsValid)
           => /\ authCall' = NoCall
              /\ toast'.kind = "error"
              /\ loading' = FALSE
              /\ UNCHANGED <<token, user, storage, path>>
    ]_vars

C5_Witness ==
  /\ lastOp = "submitBlocked" /\ educationLevel = Str(<<"school">>)
  /\ subLevel # EmptyStr /\ board = EmptyStr
  /\ authCall = NoCall /\ toast.kind = "error"

\* C6: startLearning with an empty or all-whitespace topic shows an error and
\* does not navigate, whatever the technique; with any other topic it
\* navigates to /learn carrying the topic as entered and the technique chosen.
OnlyWhitespace(t) == \A i \in 1..Len(t.s) : t.s[i] = " "

C6_TopicGuard ==
  [][ lastOp' = "startLearning" =>
        IF OnlyWhitespace(topic)
          THEN /\ path' = path /\ navState' = navState
               /\ toast' = Toast("error", "Please enter a topic to learn")
          ELSE /\ path' = "/learn"
               /\ navState'.topic = topic
               /\ \A t \in Techniques : StartLearning(t) => navState'.technique = t
    ]_vars

C6_Witness ==
  /\ lastOp = "startLearning" /\ topic = Str(<<" ">>)
  /\ path = "/dashboard" /\ toast.kind = "error"
----------------------------------------------------------------------------
\* Assessment properties (specifications SpecAssess and SpecTimer).

BlankAnswer(a) == a = Null \/ OnlyWhitespace(a)

\* C7: while the assessment page is open the score equals the number of
\* evaluations returned with is_correct = true, and it never decreases.
C7_ScoreCountsCorrect ==
  [][ AssessMounted' => (score' = evalCorrect' /\ score' >= score) ]_vars

\* C8: submitAnswer with an absent, empty or all-whitespace answer changes
\* none of currentIndex, results, score, completed and sends no request.
C8_BlankAnswerRejected ==
  [][ (lastOp' = "submitAnswer" /\ BlankAnswer(answers[currentQuestion.id])) =>
        /\ UNCHANGED <<currentIndex, results, score, completed>>
        /\ evalCalls' = evalCalls
        /\ evalIssued' = evalIssued
        /\ toast' = Toast("error", "Please provide an answer")
    ]_vars

C8_Witness ==
  /\ lastOp = "submitAnswer" /\ AssessmentView = "question"
  /\ answers[currentQuestion.id] = Str(<<" ">>)
  /\ toast = Toast("error", "Please provide an answer")
  /\ evalIssued = 0 /\ results = <<>>

\* The three classes of the timer for elapsed time t and expected time et:
\* t / et <= 1 normal, 1 < t / et <= 1.5 warning, t / et > 1.5 danger.
ClassByRatio(t, et, class) ==
  /\ t <= et => class = "text-[#a3e635]"
  /\ (t > et /\ 2 * t <= 3 * et) => class = "timer-warning"
  /\ 2 * t > 3 * et => class = "timer-danger"

\* C9, as claimed: the class follows from the ratio of the timer to the current
\* question's own expected_time, for every question.
C9_ClassByOwnExpectedTime ==
  AssessmentView = "question" =>
    ClassByRatio(timer, currentQuestion.expected_time, TimerClass(timer, expectedTime))

\* C9, amended: the class follows from the ratio of the timer to the current
\* question's expected_time, or to 60 when the question has none (absent or
\* 0); the ratios 1.0 and 1.5 fall in the lower class.
C9_ClassByEffectiveExpectedTime ==
  AssessmentView = "question" =>
    LET et == IF currentQuestion.expected_time = 0 THEN 60
              ELSE currentQuestion.expected_time
    IN  ClassByRatio(timer, et, TimerClass(timer, expectedTime))

C9_Witness ==
  /\ AssessmentView = "question" /\ lastOp = "tick"
  /\ currentQuestion.expected_time = 4 /\ timer = 6
  /\ TimerClass(timer, expectedTime) = "timer-warning"

\* The questions every evaluation of which was correct so far.
AlwaysRight == {q \in DOMAIN evalMark : evalMark[q] = "right"}

\* C10: the summary shows the pass icon exactly when score >= 4, shows the
\* score as score/6, and the score shown is the number of correct answers of
\* the session.  Whether a question submitted twice counts once or twice, that
\* number is at least the number of questions every evaluation of which was
\* correct and at most the number of correct evaluations.
C10_SummaryShowsCorrectCount ==
  (AssessMounted /\ AssessmentView = "summary") =>
    /\ (SummaryIcon(score) = "CheckCircle") <=> (score >= 4)
    /\ SummaryText(score) = <<score, "/", 6>>
    /\ Cardinality(AlwaysRight) <= score /\ score <= evalCorrect

----------------------------------------------------------------------------
\* Learning page properties (specification SpecLearn).

RECURSIVE SumCopies(_, _)
SumCopies(S, B) ==
  IF S = {} THEN 0
  ELSE LET c == CHOOSE x \in S : TRUE
       IN  CopiesIn(c, B) + SumCopies(S \ {c}, B)
NumCalls(api, calls) == SumCopies({c \in BagToSet(calls) : c.api = api}, calls)

\* C16: a create-session request is sent only by the step in which a
\* generate-questions request succeeds; the app arrives on /assess only by the
\* step in which a create-session request succeeds, with the session id
\* returned and the questions generated; and the failure of either request
\* shows the error toast, leaves the route alone and sends nothing.
C16_ProceedChainOrdered ==
  [][ /\ NumCalls("create-session", learnCalls') > NumCalls("create-session", learnCalls)
           => /\ lastOp' = "questionsSuccess"
              /\ NumCalls("create-session", learnCalls')
                   = NumCalls("create-session", learnCalls) + 1
              /\ NumCalls("generate-questions", learnCalls')
                   = NumCalls("generate-questions", learnCalls) - 1
      /\ (path' = "/assess" /\ (path # "/assess" \/ navState' # navState))
           => /\ lastOp' = "sessionSuccess"
              /\ \E c \in BagToSet(learnCalls) :
                    /\ c.api = "create-session"
                    /\ navState'.questions = c.questions
                    /\ navState'.topic = c.topic /\ navState'.technique = c.technique
              /\ navState'.sessionId \in SessionIds
              /\ navState'.questions \in QuestionLists
              /\ BagCardinality(learnCalls') = BagCardinality(learnCalls) - 1
      /\ lastOp' = "proceedFailure"
           => /\ toast' = Toast("error", "Failed to generate questions")
              /\ path' = path /\ navState' = navState
              /\ learnCalls' \sqsubseteq learnCalls
              /\ BagCardinality(learnCalls') = BagCardinality(learnCalls) - 1
    ]_vars

C16_Witness ==
  /\ lastOp = "sessionSuccess" /\ path = "/assess"
  /\ navState.sessionId = Str(<<"s1">>)
  /\ navState.questions = Arr(QuestionList(MaxQuestions))
  /\ learnCalls = EmptyBag /\ learnOps = 2

\* C17: the completion, success or failure, of a request whose Learning page
\* has been left changes neither the route nor the navigation state.
C17_LateResponseContained ==
  [][ \A c \in BagToSet(learnCalls) :
        ( /\ ~c.live
          /\ \/ ContentSuccess(c)
             \/ ContentFailure(c)
             \/ \E qs \in QuestionLists : QuestionsSuccess(c, qs)
             \/ \E sid \in SessionIds : SessionSuccess(c, sid)
             \/ ProceedFailure(c) )
        => (path' = path /\ navState' = navState)
    ]_vars

\* The content view of the Learning page, with its continue button.
ContentView == Screen = "LearningPage" /\ ~learnLoading

\* C21: the step that handles a failed generate-content request shows the
\* error toast and ends on /dashboard with the Learning page gone; the content
\* view is on screen only with content a generate-content request returned,
\* and the continue action is taken from the content view only.
C21_ContentFailureRedirects ==
  [][ /\ lastOp' = "contentFailure" =>
            /\ toast' = Toast("error", "Failed to generate content")
            /\ path' = "/dashboard" /\ navState' = NoState
            /\ Screen' = "Dashboard"
            /\ ~ContentView'
            /\ learnOps' = learnOps
      /\ ContentView' =>
            /\ content' # Null
            /\ content' = ContentOf(navState'.technique)
      /\ lastOp' = "proceedToQuestions" => (ContentView /\ content # Null)
    ]_vars

C21_Witness ==
  /\ lastOp = "contentFailure" /\ Screen = "Dashboard"
  /\ toast = Toast("error", "Failed to generate content")
  /\ learnOps = 1 /\ learnCalls = EmptyBag /\ content = Null

----------------------------------------------------------------------------
\* Restart (specification Spec).

\* C12: a page load re-creates the session that was in memory before it, the
\* one the last login set or the absent one the last logout left, and leaves
\* storage as it was: a load right after a login starts with that token and
\* that user, a load right after a logout starts with neither.
C12_RestartRestoresSession ==
  [][ lastOp' = "load" =>
        /\ token' = token /\ user' = user
        /\ storage' = storage
        /\ lastOp = "authSuccess" => SessionPresent'
        /\ lastOp = "handleLogout" => SessionAbsent'
    ]_vars

C12_Witness ==
  /\ lastOp = "load" /\ Screen = "Dashboard"
  /\ token \in Tokens /\ user \in Users

\* C19: the step that handles a failed login or signup request shows an
\* error toast with the server's detail message, or 'Authentication failed'
\* when there is none, leaves token, user, storage and route as they were, and
\* leaves the form on screen, not loading, with what was entered and no
\* request pending, so that it can be submitted again.
C19_AuthFailureSurfaced ==
  [][ lastOp' = "authFailure" =>
        /\ toast'.kind = "error"
        /\ toast'.msg = IF authCall.detail # Null THEN authCall.detail.s[1]
                        ELSE "Authentication failed"
        /\ UNCHANGED <<token, user, storage, path, navState>>
        /\ SessionAbsent'
        /\ Screen' = "AuthPage" /\ loading' = FALSE /\ authCall' = NoCall
        /\ UNCHANGED <<isLogin, educationLevel, subLevel, board>>
    ]_vars

C19_Witness ==
  /\ lastOp = "authFailure" /\ Screen = "AuthPage" /\ ~loading
  /\ toast = Toast("error", "Authentication failed")
  /\ SessionAbsent /\ authCall = NoCall

\* C20: on the Performance page analytics and progress are both set, exactly
\* when both requests have succeeded, or both absent; the page is loading
\* exactly until Promise.all has settled, which it has once a request has
\* failed or both have an outcome, whatever the outcomes.
C20_FetchesJoined ==
  Screen = "PerformancePage" =>
    /\ (analytics # Null) <=> (progress # Null)
    /\ (analytics # Null) <=> (\A f \in Fetches : perfCalls[f] = "ok")
    /\ perfLoading <=> ~perfCalls.settled
    /\ (\E f \in Fetches : perfCalls[f] = "failed") => ~perfLoading
    /\ (\A f \in Fetches : perfCalls[f] # "pending") => ~perfLoading
    /\ perfLoading => (analytics = Null /\ progress = Null)

C20_Witness ==
  /\ Screen = "PerformancePage" /\ lastOp = "fetchReply" /\ ~perfLoading
  /\ perfCalls.analytics = "ok" /\ perfCalls.progress = "failed"
  /\ analytics = Null /\ progress = Null

\* C22: token, user and storage change only in the step of a successful
\* login or signup and in the logout step: every other step, the steps of the
\* Dashboard, Learning, Assessment and Performance pages and of failed
\* requests among them, leaves all three as they were.
C22_SessionWrittenByLoginAndLogout ==
  [][ (token' # token \/ user' # user \/ storage' # storage)
        => lastOp' \in {"authSuccess", "handleLogout"} ]_vars

C22_Witness ==
  /\ lastOp = "fetchReply" /\ Screen = "PerformancePage"
  /\ perfCalls.analytics = "failed" /\ perfCalls.progress = "pending"
  /\ token \in Tokens /\ user \in Users
  /\ getItem(storage, "token") = token

----------------------------------------------------------------------------
\* Assessment progression (specification SpecAssess).

\* C13: when the submission of question i (the question at index i when the
\* answer was submitted) succeeds, the page moves to question i + 1 with the
\* timer at 0 and completed still false if i is not the last index, and sets
\* completed without advancing otherwise; and a completed session has
\* exactly one result per question.
C13_SequentialProgression ==
  [][ /\ \A c \in BagToSet(evalCalls), ok \in BOOLEAN :
           (AssessMounted /\ EvalSuccess(c, ok)) =>
             IF c.currentIndex < NumQuestions - 1
               THEN /\ currentIndex' = c.currentIndex + 1
                    /\ timer' = 0
                    /\ completed' = FALSE
               ELSE /\ completed' = TRUE
                    /\ currentIndex' = c.currentIndex
      /\ (AssessMounted' /\ completed') => Len(results') = NumQuestions
    ]_vars

\* C14: at most one evaluate-answer request is in flight.
C14_OneRequestInFlight == BagCardinality(evalCalls) <= 1

\* C15: the failure of an evaluate-answer request changes none of
\* currentIndex, results, score and completed, leaves the timer running from
\* the same start, shows the error toast and sends no request: the request
\* that failed is gone and nothing takes its place.
C15_FailureAbandonsSubmission ==
  [][ lastOp' = "evalFailure" =>
        /\ UNCHANGED <<currentIndex, results, score, completed>>
        /\ UNCHANGED <<timer, startTime>>
        /\ toast' = Toast("error", "Failed to submit answer")
        /\ evalIssued' = evalIssued
        /\ BagCardinality(evalCalls') = BagCardinality(evalCalls) - 1
        /\ evalCalls' \sqsubseteq evalCalls
    ]_vars

C15_Witness ==
  /\ lastOp = "evalFailure" /\ AssessMounted /\ AssessmentView = "question"
  /\ toast = Toast("error", "Failed to submit answer")
  /\ timer = 1 /\ startTime = 0 /\ currentIndex = 0 /\ results = <<>>
  /\ evalIssued = 1 /\ evalCalls = EmptyBag

\* C18: a page load of /assess, which carries no navigation state, ends on
\* /dashboard with no evaluate-answer request in flight or sent; the Assessment
\* page is never on screen without session id and questions; and while it is
\* not mounted the timer does not move and no evaluate-answer request is sent.
C18_AssessGuard ==
  [][ /\ lastOp' = "load" => /\ path' = "/dashboard" /\ navState' = NoState
                             /\ evalCalls' = EmptyBag
                             /\ evalIssued' = evalIssued
                             /\ timer' = 0
      /\ Screen' = "AssessmentPage" =>
            Truthy(navState'.sessionId) /\ Truthy(navState'.questions)
      /\ ~AssessMounted => (timer' = timer /\ evalIssued' = evalIssued)
    ]_vars

C18_Witness ==
  /\ lastOp = "load" /\ path = "/dashboard" /\ navState = NoState
  /\ ~AssessMounted /\ timer = 0 /\ now = 1
  /\ evalIssued = 1 /\ evalCalls = EmptyBag

\* C23: while the page is mounted the timer shows the time since startTime;
\* a step that changes currentIndex sets the timer to 0 and startTime to the
\* current time, and no other step moves startTime, so the timer counts from
\* the entry to the current question; and the time_taken of a request sent
\* by submitAnswer is the time elapsed since that entry.
C23_PerQuestionTimer ==
  [][ (AssessMounted /\ AssessMounted') =>
        /\ timer' = now' - startTime'
        /\ currentIndex' # currentIndex => (timer' = 0 /\ startTime' = now')
        /\ startTime' # startTime => currentIndex' # currentIndex
        /\ lastOp' = "submitAnswer" =>
              \A c \in BagToSet(evalCalls' (-) evalCalls) :
                 c.time_taken = now - startTime
    ]_vars

\* C24: once completed is set, no step that leaves the page mounted changes
\* score, results, currentIndex or completed: the summary keeps showing the
\* score that finishAssessment will report.
C24_CompletedIsFinal ==
  [][ (AssessMounted /\ completed /\ AssessMounted') =>
        UNCHANGED <<score, results, currentIndex, completed>>
    ]_vars

C26_ScoreResultsBounded ==
  AssessMounted =>
    /\ 0 <= score
    /\ score <= Len(results)
    /\ Len(results) <= NumQuestions

====
